---- MODULE Spec2Model ----
(***************************************************************************)
(* A model of the YubiHSM Auth client library (ykhsmauth.c): the TLV       *)
(* encoder, the status-word translator and the credential operations that  *)
(* build one command frame (APDU), hand it to the PC/SC transport and      *)
(* decode the response; and the session calls that establish and release   *)
(* the PC/SC context and the card handle.                                  *)
(*                                                                         *)
(* Bytes are integers 0..255, buffers are sequences of bytes.  One action  *)
(* is one call of a library function: its arguments, the transport's       *)
(* answer and, where the C code has undefined behaviour, the outcome of    *)
(* that behaviour are chosen by \E.                                        *)
(***************************************************************************)
EXTENDS Integers, Sequences, FiniteSets, TLC

VARIABLES
  op,     \* the library function called last ("none" before the first call)
  arg,    \* its arguments (a record; a NULL pointer is a name in arg.nulls)
  ret,    \* its return code, or "ABORT" when the process died inside the call
  sent,   \* the frames handed to SCardTransmit during the call, in order
  resp,   \* what SCardTransmit answered (NoResp when it was never called)
  apdu,   \* the command frame as the call left it
  out,    \* the caller's output parameters after the call
  state   \* the session the caller's handle points to (ykhsmauth_state)

vars == <<op, arg, ret, sent, resp, apdu, out, state>>

(***************************************************************************)
(* Protocol constants (ykhsmauth.h, internal.h).                           *)
(***************************************************************************)
YKHSMAUTH_INS_PUT == 1
YKHSMAUTH_INS_DELETE == 2
YKHSMAUTH_INS_CALCULATE == 3
YKHSMAUTH_INS_GET_CHALLENGE == 4
YKHSMAUTH_INS_LIST == 5
YKHSMAUTH_INS_RESET == 6
YKHSMAUTH_INS_GET_VERSION == 7
YKHSMAUTH_INS_PUT_MGMKEY == 8
YKHSMAUTH_INS_GET_MGMKEY_RETRIES == 9
YKHSMAUTH_INS_GET_PUBKEY == 10

\* 0xde, 0xad
YKHSMAUTH_P1_RESET == 222
YKHSMAUTH_P2_RESET == 173

\* 0x71 .. 0x7d
YKHSMAUTH_TAG_LABEL == 113
YKHSMAUTH_TAG_LABEL_LIST == 114
YKHSMAUTH_TAG_PW == 115
YKHSMAUTH_TAG_ALGO == 116
YKHSMAUTH_TAG_KEY_ENC == 117
YKHSMAUTH_TAG_KEY_MAC == 118
YKHSMAUTH_TAG_CONTEXT == 119
YKHSMAUTH_TAG_RESPONSE == 120
YKHSMAUTH_TAG_TOUCH == 122
YKHSMAUTH_TAG_MGMKEY == 123
YKHSMAUTH_TAG_PUBKEY == 124
YKHSMAUTH_TAG_PRIVKEY == 125

YKHSMAUTH_YUBICO_AES128_ALGO == 38
YKHSMAUTH_YUBICO_ECP256_ALGO == 39

YKHSMAUTH_MIN_LABEL_LEN == 1
YKHSMAUTH_MAX_LABEL_LEN == 64
YKHSMAUTH_CARD_CRYPTO_LEN == 8
YKHSMAUTH_YUBICO_ECP256_PRIVKEY_LEN == 32
YKHSMAUTH_YUBICO_ECP256_PUBKEY_LEN == 65
YKHSMAUTH_SESSION_KEY_LEN == 16
YKHSMAUTH_PW_LEN == 16

\* sizeof(list[element].label): char label[YKHSMAUTH_MAX_LABEL_LEN + 1]
LIST_LABEL_SIZE == 65

\* sizeof(apdu.st.data): unsigned char data[0xff]
APDU_DATA_SIZE == 255

\* 0x9000, 0x63c0, 0x6a84, 0x6a82, 0x6a80, 0x6581, 0x6982, 0x6983, 0x6984,
\* 0x6d00
SW_SUCCESS == 36864
SW_AUTHENTICATION_FAILED == 25536
SW_FILE_FULL == 27268
SW_FILE_NOT_FOUND == 27266
SW_WRONG_DATA == 27264
SW_MEMORY_ERROR == 25985
SW_SECURITY_STATUS_NOT_SATISFIED == 27010
SW_FILE_INVALID == 27011
SW_DATA_INVALID == 27012
SW_INS_NOT_SUPPORTED == 27904

\* sizeof(data) of the receive buffers: 256 everywhere, 1024 in list_keys
RECV_BUF_SIZE == 256
LIST_RECV_BUF_SIZE == 1024

(***************************************************************************)
(* Byte-level helpers.                                                     *)
(***************************************************************************)
Byte == 0..255

\* n zero bytes: memset(ptr, 0, n)
Zeros(n) == [i \in 1..n |-> 0]

\* A buffer of n bytes with recognisable, position-dependent, non-zero content.
Pat(n, seed) == [i \in 1..n |-> 1 + ((seed + 7 * i) % 255)]

\* seq[from..to] with 0-based, half-open C indices: data + from, length to - from
Slice(seq, from, to) == SubSeq(seq, from + 1, to)

\* An encode_len whose one-byte form reaches up to 0x80.
encode_len_wrong(len) ==
  IF len > 255 THEN <<130, (len \div 256) % 256, len % 256>>
  ELSE IF len > 128 THEN <<129, len % 256>>
  ELSE <<len % 256>>

\* uint16_t encode_len(uint8_t *buf, uint16_t len): the bytes stored at buf;
\* the return value is their number.  Stores to uint8_t keep the low 8 bits.
encode_len(len) ==
  IF len > 255 THEN <<130, (len \div 256) % 256, len % 256>>
  ELSE IF len > 127 THEN <<129, len % 256>>
  ELSE <<len % 256>>

(***************************************************************************)
(* The command frame.  data holds apdu.st.data, an array of 255 bytes, up   *)
(* to the last byte ever stored in it (the rest still holds the zeros of   *)
(* its initialiser), lc is the one-byte length field.                      *)
(* add_tag writes through a raw pointer, so a                              *)
(* field that does not fit runs past the end of the array: hi is the       *)
(* highest offset (exclusive) any add_tag wrote or tried to write, and     *)
(* spilt the number of bytes that landed outside the array.  The build     *)
(* decides what such a write does: ub = "spill" (the bytes land in the     *)
(* neighbouring stack memory and the call goes on, as in plain gcc         *)
(* builds) or ub = "abort" (the process is killed at the write, as in      *)
(* an instrumented build); aborted records the latter.                     *)
(***************************************************************************)
UBOutcomes == {"spill", "abort"}

\* APDU apdu = {{0, ins, p1, p2, 0, {0}}}
NewAPDU(ins, p1, p2) ==
  [ins |-> ins, p1 |-> p1, p2 |-> p2, cla |-> 0, lc |-> 0,
   data |-> <<>>, hi |-> 0, spilt |-> 0, aborted |-> FALSE]

\* The bytes one field occupies: tag, encoded length of len + pad, the value,
\* pad zero bytes.
FieldBytes(tag, value, pad) ==
  <<tag>> \o encode_len((Len(value) + pad) % 65536) \o value \o Zeros(pad)

Max(a, b) == IF a > b THEN a ELSE b
Min(a, b) == IF a < b THEN a ELSE b

\* data with bytes stored at offset off (0-based, off <= Len(data)); what
\* falls beyond the array's 255 bytes is lost to the array.
StoreAt(data, off, bytes) ==
  [k \in 1..Min(APDU_DATA_SIZE, Max(Len(data), off + Len(bytes))) |->
     IF k > off /\ k <= off + Len(bytes) THEN bytes[k - off] ELSE data[k]]

\* static void add_tag(APDU *apdu, uint8_t tag, const void *data,
\*                     uint16_t len, uint16_t pad)
add_tag(a, tag, value, pad, ub) ==
  LET bytes == FieldBytes(tag, value, pad)
      end   == a.lc + Len(bytes)
      over  == Max(0, end - APDU_DATA_SIZE)
  IN  IF a.aborted THEN a
      ELSE IF over > 0 /\ ub = "abort"
        THEN [a EXCEPT !.aborted = TRUE, !.hi = Max(a.hi, end)]
        ELSE [a EXCEPT !.data = StoreAt(a.data, a.lc, bytes),
                       !.lc = end % 256,
                       !.hi = Max(a.hi, end),
                       !.spilt = a.spilt + over]

\* apdu.raw[0 .. lc + 5): the bytes send_data passes to SCardTransmit
Raw(a) == <<a.cla, a.ins, a.p1, a.p2, a.lc>> \o SubSeq(a.data, 1, a.lc)

(***************************************************************************)
(* Return codes (ykhsmauth_rc) are named by the suffix of YKHSMAUTHR_*.    *)
(***************************************************************************)

\* The eight status words translate_error knows by exact value.
ExactCodes ==
  {SW_FILE_FULL, SW_FILE_NOT_FOUND, SW_WRONG_DATA, SW_MEMORY_ERROR,
   SW_SECURITY_STATUS_NOT_SATISFIED, SW_FILE_INVALID, SW_DATA_INVALID,
   SW_INS_NOT_SUPPORTED}

\* sw & 0xfff0 and sw & ~0xfff0 for a 16-bit sw
HighBits(sw) == sw - (sw % 16)
LowNibble(sw) == sw % 16

\* The caller's retry counter: never written, or holding value v.
NoRetries == [value |-> 0, written |-> FALSE]
Retries(v) == [value |-> v, written |-> TRUE]

\* A translate_error that masks with 0xff00 instead of 0xfff0.
translate_error_wrong(sw, retries_null) ==
  IF HighBits(sw) \div 256 = SW_AUTHENTICATION_FAILED \div 256
    THEN [rc |-> "WRONG_PW",
          retries |-> IF retries_null THEN NoRetries ELSE Retries(LowNibble(sw))]
    ELSE [rc |-> CASE sw = SW_FILE_FULL -> "STORAGE_FULL"
                   [] sw = SW_FILE_NOT_FOUND -> "ENTRY_NOT_FOUND"
                   [] sw = SW_WRONG_DATA -> "INVALID_PARAMS"
                   [] sw = SW_MEMORY_ERROR -> "MEMORY_ERROR"
                   [] sw = SW_SECURITY_STATUS_NOT_SATISFIED -> "TOUCH_ERROR"
                   [] sw = SW_FILE_INVALID -> "ENTRY_INVALID"
                   [] sw = SW_DATA_INVALID -> "DATA_INVALID"
                   [] sw = SW_INS_NOT_SUPPORTED -> "NOT_SUPPORTED"
                   [] OTHER -> "GENERIC_ERROR",
          retries |-> NoRetries]

\* static ykhsmauth_rc translate_error(uint16_t sw, uint8_t *retries)
\* retries_null: the pointer is NULL.  Result: the code and the counter.
translate_error(sw, retries_null) ==
  IF HighBits(sw) = SW_AUTHENTICATION_FAILED
    THEN [rc |-> "WRONG_PW",
          retries |-> IF retries_null THEN NoRetries ELSE Retries(LowNibble(sw))]
    ELSE [rc |-> CASE sw = SW_FILE_FULL -> "STORAGE_FULL"
                   [] sw = SW_FILE_NOT_FOUND -> "ENTRY_NOT_FOUND"
                   [] sw = SW_WRONG_DATA -> "INVALID_PARAMS"
                   [] sw = SW_MEMORY_ERROR -> "MEMORY_ERROR"
                   [] sw = SW_SECURITY_STATUS_NOT_SATISFIED -> "TOUCH_ERROR"
                   [] sw = SW_FILE_INVALID -> "ENTRY_INVALID"
                   [] sw = SW_DATA_INVALID -> "DATA_INVALID"
                   [] sw = SW_INS_NOT_SUPPORTED -> "NOT_SUPPORTED"
                   [] OTHER -> "GENERIC_ERROR",
          retries |-> NoRetries]

(***************************************************************************)
(* The transport.  SCardTransmit either fails (no bytes) or stores the     *)
(* card's answer, payload followed by the two status bytes, in the         *)
(* receive buffer.                                                         *)
(***************************************************************************)
NoResp == [bytes |-> <<>>, fail |-> FALSE]
TransportFailure == [bytes |-> <<>>, fail |-> TRUE]
Answer(payload, sw) == [bytes |-> payload \o <<sw \div 256, sw % 256>>, fail |-> FALSE]

\* static ykhsmauth_rc send_data(state, apdu, data, recv_len, sw): one call
\* of SCardTransmit with the frame; frame is what was sent, data the receive
\* buffer's defined prefix, recv_len and sw the values left in *recv_len, *sw.
send_data(a, rx, bufsize) ==
  IF rx.fail
    THEN [data |-> <<>>, sw |-> 0, rc |-> "PCSC_ERROR",
          frame |-> Raw(a), recv_len |-> bufsize]
    ELSE LET n == Len(rx.bytes)
         IN  [data |-> rx.bytes, sw |-> IF n >= 2 THEN rx.bytes[n - 1] * 256 + rx.bytes[n] ELSE 0, rc |-> "SUCCESS",
              frame |-> Raw(a),
              recv_len |-> IF n >= 2 THEN n - 2 ELSE n]

\* What a call leaves behind: return code, frames transmitted, frame, outputs.
Result(rc, tx, a, o) == [ret |-> rc, apdu |-> a, out |-> o, tx |-> tx]

\* The process died inside add_tag: nothing was transmitted, nothing returned.
Aborted(a, o) == Result("ABORT", <<>>, a, o)

\* A label check that forgot the upper bound.
label_below_min_only(label) == Len(label) < YKHSMAUTH_MIN_LABEL_LEN

\* strlen(label) < MIN_LABEL_LEN || strlen(label) > MAX_LABEL_LEN
label_out_of_range(label) ==
  \/ Len(label) < YKHSMAUTH_MIN_LABEL_LEN
  \/ Len(label) > YKHSMAUTH_MAX_LABEL_LEN

(***************************************************************************)
(* ykhsmauth_put                                                           *)
(***************************************************************************)
\* the argument check of ykhsmauth_put
put_invalid(a) ==
  \/ "state" \in a.nulls
  \/ "mgmkey" \in a.nulls
  \/ Len(a.mgmkey) # YKHSMAUTH_PW_LEN
  \/ "label" \in a.nulls
  \/ label_out_of_range(a.label)
  \/ "key" \in a.nulls
  \/ Len(a.key) > YKHSMAUTH_YUBICO_ECP256_PRIVKEY_LEN
  \/ "cpw" \in a.nulls
  \/ Len(a.cpw) > YKHSMAUTH_PW_LEN

\* the frame ykhsmauth_put builds
put_frame(a, ub) ==
  LET f0 == NewAPDU(YKHSMAUTH_INS_PUT, 0, 0)
      f1 == add_tag(f0, YKHSMAUTH_TAG_MGMKEY, a.mgmkey, 0, ub)
      f2 == add_tag(f1, YKHSMAUTH_TAG_LABEL, a.label, 0, ub)
      f3 == add_tag(f2, YKHSMAUTH_TAG_ALGO, <<a.algo>>, 0, ub)
      half == Len(a.key) \div 2
      f4 == IF a.algo = YKHSMAUTH_YUBICO_AES128_ALGO
              THEN add_tag(add_tag(f3, YKHSMAUTH_TAG_KEY_ENC,
                                   Slice(a.key, 0, half), 0, ub),
                           YKHSMAUTH_TAG_KEY_MAC,
                           Slice(a.key, half, 2 * half), 0, ub)
            ELSE IF a.algo = YKHSMAUTH_YUBICO_ECP256_ALGO
              THEN add_tag(f3, YKHSMAUTH_TAG_PRIVKEY, a.key, 0, ub)
            ELSE f3
      f5 == add_tag(f4, YKHSMAUTH_TAG_PW, a.cpw,
                    YKHSMAUTH_PW_LEN - Len(a.cpw), ub)
  IN  add_tag(f5, YKHSMAUTH_TAG_TOUCH, <<a.touch_policy>>, 0, ub)

\* The tail shared by put, delete and put_mgmkey: one exchange, then the
\* status word decides.
exchange_status_only(f, rx, retries_null) ==
  LET o0 == [retries |-> NoRetries]
      s  == send_data(f, rx, RECV_BUF_SIZE)
  IN  IF f.aborted THEN Aborted(f, o0)
      ELSE IF s.rc # "SUCCESS" THEN Result(s.rc, <<s.frame>>, f, o0)
      ELSE IF s.sw # SW_SUCCESS
        THEN LET t == translate_error(s.sw, retries_null)
             IN  Result(t.rc, <<s.frame>>, f, [retries |-> t.retries])
      ELSE Result("SUCCESS", <<s.frame>>, f, o0)

ykhsmauth_put(a, rx, ub) ==
  IF put_invalid(a)
    THEN Result("INVALID_PARAMS", <<>>, NewAPDU(YKHSMAUTH_INS_PUT, 0, 0),
                [retries |-> NoRetries])
    ELSE exchange_status_only(put_frame(a, ub), rx, "retries" \in a.nulls)

(***************************************************************************)
(* ykhsmauth_delete                                                        *)
(***************************************************************************)
delete_invalid(a) ==
  \/ "state" \in a.nulls
  \/ "mgmkey" \in a.nulls
  \/ Len(a.mgmkey) # YKHSMAUTH_PW_LEN
  \/ "label" \in a.nulls
  \/ label_out_of_range(a.label)

delete_frame(a, ub) ==
  LET f0 == NewAPDU(YKHSMAUTH_INS_DELETE, 0, 0)
      f1 == add_tag(f0, YKHSMAUTH_TAG_MGMKEY, a.mgmkey, 0, ub)
  IN  add_tag(f1, YKHSMAUTH_TAG_LABEL, a.label, 0, ub)

ykhsmauth_delete(a, rx, ub) ==
  IF delete_invalid(a)
    THEN Result("INVALID_PARAMS", <<>>, NewAPDU(YKHSMAUTH_INS_DELETE, 0, 0),
                [retries |-> NoRetries])
    ELSE exchange_status_only(delete_frame(a, ub), rx, "retries" \in a.nulls)

(***************************************************************************)
(* ykhsmauth_put_mgmkey                                                    *)
(***************************************************************************)
put_mgmkey_invalid(a) ==
  \/ "state" \in a.nulls
  \/ "mgmkey" \in a.nulls
  \/ Len(a.mgmkey) # YKHSMAUTH_PW_LEN
  \/ "new_mgmkey" \in a.nulls
  \/ Len(a.new_mgmkey) # YKHSMAUTH_PW_LEN

put_mgmkey_frame(a, ub) ==
  LET f0 == NewAPDU(YKHSMAUTH_INS_PUT_MGMKEY, 0, 0)
      f1 == add_tag(f0, YKHSMAUTH_TAG_MGMKEY, a.mgmkey, 0, ub)
  IN  add_tag(f1, YKHSMAUTH_TAG_MGMKEY, a.new_mgmkey, 0, ub)

ykhsmauth_put_mgmkey(a, rx, ub) ==
  IF put_mgmkey_invalid(a)
    THEN Result("INVALID_PARAMS", <<>>, NewAPDU(YKHSMAUTH_INS_PUT_MGMKEY, 0, 0),
                [retries |-> NoRetries])
    ELSE exchange_status_only(put_mgmkey_frame(a, ub), rx, "retries" \in a.nulls)

(***************************************************************************)
(* ykhsmauth_calculate                                                     *)
(***************************************************************************)
\* An output buffer nothing was stored in.
Untouched == <<>>

NoKeys ==
  [retries |-> NoRetries, key_s_enc |-> Untouched, key_s_mac |-> Untouched,
   key_s_rmac |-> Untouched]

\* the argument check of ykhsmauth_calculate
calculate_invalid(a) ==
  \/ "state" \in a.nulls
  \/ "label" \in a.nulls
  \/ label_out_of_range(a.label)
  \/ "context" \in a.nulls
  \/ Len(a.context) > 2 * YKHSMAUTH_YUBICO_ECP256_PUBKEY_LEN
  \/ Len(a.card_pubkey) > YKHSMAUTH_YUBICO_ECP256_PUBKEY_LEN
  \/ Len(a.card_crypto) > YKHSMAUTH_SESSION_KEY_LEN
  \/ "pw" \in a.nulls
  \/ Len(a.pw) > YKHSMAUTH_PW_LEN
  \/ "key_s_enc" \in a.nulls
  \/ a.key_s_enc_len # YKHSMAUTH_SESSION_KEY_LEN
  \/ "key_s_mac" \in a.nulls
  \/ a.key_s_mac_len # YKHSMAUTH_SESSION_KEY_LEN
  \/ "key_s_rmac" \in a.nulls
  \/ a.key_s_rmac_len # YKHSMAUTH_SESSION_KEY_LEN

\* the frame ykhsmauth_calculate builds
calculate_frame(a, ub) ==
  LET f0 == NewAPDU(YKHSMAUTH_INS_CALCULATE, 0, 0)
      f1 == add_tag(f0, YKHSMAUTH_TAG_LABEL, a.label, 0, ub)
      f2 == add_tag(f1, YKHSMAUTH_TAG_CONTEXT, a.context, 0, ub)
      f3 == IF "card_pubkey" \notin a.nulls /\ Len(a.card_pubkey) # 0
              THEN add_tag(f2, YKHSMAUTH_TAG_PUBKEY, a.card_pubkey, 0, ub)
              ELSE f2
      f4 == IF /\ "card_crypto" \notin a.nulls
               /\ Len(a.card_crypto) > YKHSMAUTH_CARD_CRYPTO_LEN
              THEN add_tag(f3, YKHSMAUTH_TAG_RESPONSE, a.card_crypto, 0, ub)
              ELSE f3
  IN  add_tag(f4, YKHSMAUTH_TAG_PW, a.pw, YKHSMAUTH_PW_LEN - Len(a.pw), ub)

\* Three memcpy calls of which the last forgot to advance the pointer.
split_keys_overlapping(data) ==
  [retries |-> NoRetries,
   key_s_enc  |-> Slice(data, 0, YKHSMAUTH_SESSION_KEY_LEN),
   key_s_mac  |-> Slice(data, YKHSMAUTH_SESSION_KEY_LEN,
                        2 * YKHSMAUTH_SESSION_KEY_LEN),
   key_s_rmac |-> Slice(data, YKHSMAUTH_SESSION_KEY_LEN,
                        2 * YKHSMAUTH_SESSION_KEY_LEN)]

\* the three memcpy calls of ykhsmauth_calculate
split_keys(data) ==
  [retries |-> NoRetries,
   key_s_enc  |-> Slice(data, 0, YKHSMAUTH_SESSION_KEY_LEN),
   key_s_mac  |-> Slice(data, YKHSMAUTH_SESSION_KEY_LEN,
                        2 * YKHSMAUTH_SESSION_KEY_LEN),
   key_s_rmac |-> Slice(data, 2 * YKHSMAUTH_SESSION_KEY_LEN,
                        3 * YKHSMAUTH_SESSION_KEY_LEN)]

ykhsmauth_calculate(a, rx, ub) ==
  IF calculate_invalid(a)
    THEN Result("INVALID_PARAMS", <<>>, NewAPDU(YKHSMAUTH_INS_CALCULATE, 0, 0),
                NoKeys)
    ELSE
      LET f == calculate_frame(a, ub)
          s == send_data(f, rx, RECV_BUF_SIZE)
      IN  IF f.aborted THEN Aborted(f, NoKeys)
          ELSE IF s.rc # "SUCCESS" THEN Result(s.rc, <<s.frame>>, f, NoKeys)
          ELSE IF s.sw # SW_SUCCESS
            THEN LET t == translate_error(s.sw, "retries" \in a.nulls)
                 IN  Result(t.rc, <<s.frame>>, f,
                            [NoKeys EXCEPT !.retries = t.retries])
          ELSE IF s.recv_len # 3 * YKHSMAUTH_SESSION_KEY_LEN
            THEN Result("GENERIC_ERROR", <<s.frame>>, f, NoKeys)
          ELSE Result("SUCCESS", <<s.frame>>, f, split_keys(s.data))

(***************************************************************************)
(* ykhsmauth_reset                                                         *)
(***************************************************************************)
NoOut == [none |-> TRUE]

reset_invalid(a) == "state" \in a.nulls

\* A reset that transmits again when the exchange failed.
ykhsmauth_reset_retrying(a, rx) ==
  LET f == NewAPDU(YKHSMAUTH_INS_RESET, YKHSMAUTH_P1_RESET, YKHSMAUTH_P2_RESET)
      s == send_data(f, rx, RECV_BUF_SIZE)
  IN  IF reset_invalid(a) THEN Result("INVALID_PARAMS", <<>>, f, NoOut)
      ELSE IF s.rc # "SUCCESS"
        THEN Result(translate_error(s.sw, TRUE).rc, <<s.frame, s.frame>>, f, NoOut)
      ELSE IF s.sw # SW_SUCCESS
        THEN Result(translate_error(s.sw, TRUE).rc, <<s.frame>>, f, NoOut)
      ELSE Result(s.rc, <<s.frame>>, f, NoOut)

\* res = send_data(...); if (sw != SW_SUCCESS) return translate_error(sw, NULL);
\* return res;   The status word is looked at before the transport's result.
ykhsmauth_reset(a, rx) ==
  LET f == NewAPDU(YKHSMAUTH_INS_RESET, YKHSMAUTH_P1_RESET, YKHSMAUTH_P2_RESET)
      s == send_data(f, rx, RECV_BUF_SIZE)
  IN  IF reset_invalid(a) THEN Result("INVALID_PARAMS", <<>>, f, NoOut)
      ELSE IF s.sw # SW_SUCCESS
        THEN Result(translate_error(s.sw, TRUE).rc, <<s.frame>>, f, NoOut)
      ELSE Result(s.rc, <<s.frame>>, f, NoOut)

(***************************************************************************)
(* ykhsmauth_get_version                                                   *)
(***************************************************************************)
\* "%d" of a byte, as character codes
DecStr(b) ==
  IF b >= 100 THEN <<48 + (b \div 100), 48 + ((b \div 10) % 10), 48 + (b % 10)>>
  ELSE IF b >= 10 THEN <<48 + (b \div 10), 48 + (b % 10)>>
  ELSE <<48 + b>>

\* snprintf(version, len, "%d.%d.%d", data[0], data[1], data[2]): the string
\* left in version (without its terminator); nothing is stored when len = 0.
FormatVersion(data, len) ==
  LET full == DecStr(data[1]) \o <<46>> \o DecStr(data[2]) \o <<46>> \o DecStr(data[3])
  IN  IF len = 0 THEN [written |-> FALSE, str |-> <<>>]
      ELSE [written |-> TRUE,
            str |-> IF Len(full) <= len - 1 THEN full ELSE SubSeq(full, 1, len - 1)]

NoVersion == [written |-> FALSE, str |-> <<>>]

get_version_invalid(a) == "state" \in a.nulls \/ "version" \in a.nulls

ykhsmauth_get_version(a, rx) ==
  LET f == NewAPDU(YKHSMAUTH_INS_GET_VERSION, 0, 0)
      s == send_data(f, rx, RECV_BUF_SIZE)
  IN  IF get_version_invalid(a)
        THEN Result("INVALID_PARAMS", <<>>, f, [version |-> NoVersion])
      ELSE IF s.rc # "SUCCESS"
        THEN Result(s.rc, <<s.frame>>, f, [version |-> NoVersion])
      ELSE IF s.sw = SW_SUCCESS /\ s.recv_len = 3
        THEN Result("SUCCESS", <<s.frame>>, f,
                    [version |-> FormatVersion(s.data, a.len)])
      ELSE Result(translate_error(s.sw, TRUE).rc, <<s.frame>>, f,
                  [version |-> NoVersion])

(***************************************************************************)
(* ykhsmauth_get_mgmkey_retries                                            *)
(***************************************************************************)
get_mgmkey_retries_invalid(a) == "state" \in a.nulls \/ "retries" \in a.nulls

\* *retries = data[0]: with an empty payload that byte is the first status byte
ykhsmauth_get_mgmkey_retries(a, rx) ==
  LET f == NewAPDU(YKHSMAUTH_INS_GET_MGMKEY_RETRIES, 0, 0)
      s == send_data(f, rx, RECV_BUF_SIZE)
  IN  IF get_mgmkey_retries_invalid(a)
        THEN Result("INVALID_PARAMS", <<>>, f, [retries |-> NoRetries])
      ELSE IF s.rc # "SUCCESS"
        THEN Result(s.rc, <<s.frame>>, f, [retries |-> NoRetries])
      ELSE IF s.sw # SW_SUCCESS
        THEN Result(translate_error(s.sw, TRUE).rc, <<s.frame>>, f,
                    [retries |-> NoRetries])
      ELSE Result("SUCCESS", <<s.frame>>, f, [retries |-> Retries(s.data[1])])

(***************************************************************************)
(* ykhsmauth_get_challenge, ykhsmauth_get_pubkey                           *)
(***************************************************************************)
\* The caller's buffer and in/out length: cap is *len on entry, stored the
\* bytes memcpy put at the buffer's address (all of them, whatever cap is).
NoBlob(a) == [len |-> a.cap, stored |-> Untouched]

\* the argument check of get_challenge and of get_pubkey
blob_invalid(a) ==
  \/ "state" \in a.nulls
  \/ "label" \in a.nulls
  \/ label_out_of_range(a.label)
  \/ "buf" \in a.nulls
  \/ "len" \in a.nulls
  \/ a.cap < YKHSMAUTH_YUBICO_ECP256_PUBKEY_LEN

\* the body both functions share, for instruction ins.  memcpy copies recv_len
\* bytes whatever the caller's capacity is: when they do not fit, the copy
\* runs past the caller's buffer (ub = "spill") or the process is killed at
\* the copy, after *len was stored (ub = "abort").
get_blob(ins, a, rx, ub) ==
  LET f0 == NewAPDU(ins, 0, 0)
      f  == add_tag(f0, YKHSMAUTH_TAG_LABEL, a.label, 0, ub)
      s  == send_data(f, rx, RECV_BUF_SIZE)
  IN  IF blob_invalid(a) THEN Result("INVALID_PARAMS", <<>>, f0, NoBlob(a))
      ELSE IF f.aborted THEN Aborted(f, NoBlob(a))
      ELSE IF s.rc # "SUCCESS" THEN Result(s.rc, <<s.frame>>, f, NoBlob(a))
      ELSE IF s.sw # SW_SUCCESS
        THEN Result(translate_error(s.sw, TRUE).rc, <<s.frame>>, f, NoBlob(a))
      ELSE IF s.recv_len > a.cap /\ ub = "abort"
        THEN Result("ABORT", <<s.frame>>, f,
                    [len |-> s.recv_len, stored |-> Untouched])
      ELSE Result("SUCCESS", <<s.frame>>, f,
                  [len |-> s.recv_len, stored |-> Slice(s.data, 0, s.recv_len)])

ykhsmauth_get_challenge(a, rx, ub) == get_blob(YKHSMAUTH_INS_GET_CHALLENGE, a, rx, ub)

ykhsmauth_get_pubkey(a, rx, ub) == get_blob(YKHSMAUTH_INS_GET_PUBKEY, a, rx, ub)

(***************************************************************************)
(* ykhsmauth_list_keys                                                     *)
(***************************************************************************)
\* size_t len = data[i++]: a record's length is the one byte after its tag
\* (i is the 0-based index of that byte)
record_len(data, i) == data[i + 1]

\* algo, touch, label and ctr of the record whose value starts at offset j:
\* label is the whole array, zeroed and then filled with the len - 3 bytes
list_entry(data, j, len) ==
  [label |-> Slice(data, j + 2, j + len - 1) \o Zeros(LIST_LABEL_SIZE - (len - 3)),
   algo  |-> data[j + 1],
   touch |-> data[j + 2],
   ctr   |-> data[j + len]]

\* A capacity check that lets one element too many through.
list_full_off_by_one(element, cap) == element > cap

\* element >= *list_items
list_full(element, cap) == element >= cap

\* i + len > recv_len || len < 3 || len - 3 > sizeof(list[element].label)
record_bad(j, len, recv_len) ==
  j + len > recv_len \/ len < 3 \/ len - 3 > LIST_LABEL_SIZE

\* An end of list_keys without the final cursor check.
after_loop_unchecked(i, recv_len) == "SUCCESS"

\* if (i != recv_len) return YKHSMAUTHR_GENERIC_ERROR; return YKHSMAUTHR_SUCCESS;
after_loop(i, recv_len) == IF i # recv_len THEN "GENERIC_ERROR" ELSE "SUCCESS"

\* The while loop and the code after it.  i, element: the loop's variables;
\* lst: the entries stored so far, slot k of the caller's array being lst[k+1];
\* cap: *list_items on entry.  Yields the return code, the array and
\* *list_items on exit.
RECURSIVE list_walk(_, _, _, _, _, _, _)
list_walk(data, recv_len, i, element, lst, list_null, cap) ==
  IF i + 1 < recv_len
    THEN IF data[i + 1] = YKHSMAUTH_TAG_LABEL_LIST
      THEN LET len == record_len(data, i + 1)
               j   == i + 2
           IN  IF ~list_null
                 THEN IF list_full(element, cap)
                        THEN [rc |-> "MEMORY_ERROR", list |-> lst, list_items |-> cap]
                      ELSE IF record_bad(j, len, recv_len)
                        THEN [rc |-> "GENERIC_ERROR", list |-> lst, list_items |-> cap]
                      ELSE list_walk(data, recv_len, j + len, element + 1,
                                     Append(lst, list_entry(data, j, len)),
                                     list_null, cap)
                 ELSE list_walk(data, recv_len, j + len, element + 1, lst,
                                list_null, cap)
      ELSE [rc |-> "GENERIC_ERROR", list |-> lst, list_items |-> cap]
    ELSE [rc |-> after_loop(i, recv_len), list |-> lst, list_items |-> element]

list_keys_invalid(a) == "state" \in a.nulls \/ "list_items" \in a.nulls

NoList(a) == [list |-> <<>>, list_items |-> a.cap]

ykhsmauth_list_keys(a, rx) ==
  LET f == NewAPDU(YKHSMAUTH_INS_LIST, 0, 0)
      s == send_data(f, rx, LIST_RECV_BUF_SIZE)
  IN  IF list_keys_invalid(a) THEN Result("INVALID_PARAMS", <<>>, f, NoList(a))
      ELSE IF s.rc # "SUCCESS" THEN Result(s.rc, <<s.frame>>, f, NoList(a))
      ELSE IF s.sw # SW_SUCCESS
        THEN Result(translate_error(s.sw, TRUE).rc, <<s.frame>>, f, NoList(a))
      ELSE LET w == list_walk(s.data, s.recv_len, 0, 0, <<>>,
                              "list" \in a.nulls, a.cap)
           IN  Result(w.rc, <<s.frame>>, f,
                      [list |-> w.list, list_items |-> w.list_items])

(***************************************************************************)
(* The session: ykhsmauth_init, ykhsmauth_list_readers, ykhsmauth_connect, *)
(* ykhsmauth_disconnect, ykhsmauth_done.  context is state->context: the value             *)
(* SCARD_E_INVALID_HANDLE that ykhsmauth_init and every release store, or  *)
(* the handle SCardEstablishContext gave.  card is state->card: 0, or the  *)
(* handle the last successful SCardConnect stored (here the number of the  *)
(* reader it opened).  alloc: ykhsmauth_init has allocated the session.    *)
(***************************************************************************)
SCARD_E_INVALID_HANDLE == "SCARD_E_INVALID_HANDLE"

\* The context SCardEstablishContext stores on success.
EstablishedContext == "hContext"

\* SCardIsValidContext(context) == SCARD_S_SUCCESS
SCardIsValidContext(context) == context # SCARD_E_INVALID_HANDLE

\* The caller's handle before ykhsmauth_init.
NoState == [context |-> SCARD_E_INVALID_HANDLE, alloc |-> FALSE, card |-> 0]

\* What a session call leaves behind.
SessionResult(rc, st, tx, o) == [ret |-> rc, out |-> o, state |-> st, tx |-> tx]

\* ykhsmauth_rc ykhsmauth_init(ykhsmauth_state **state, int verbose)
\* malloc_ok: malloc returned memory.
ykhsmauth_init(st, a, malloc_ok) ==
  IF "state" \in a.nulls THEN SessionResult("INVALID_PARAMS", st, <<>>, NoOut)
  ELSE IF ~malloc_ok THEN SessionResult("MEMORY_ERROR", st, <<>>, NoOut)
  ELSE SessionResult("SUCCESS",
                     [context |-> SCARD_E_INVALID_HANDLE, alloc |-> TRUE, card |-> 0],
                     <<>>, NoOut)

\* ykhsmauth_rc ykhsmauth_disconnect(ykhsmauth_state *state)
ykhsmauth_disconnect(st, a) ==
  IF "state" \in a.nulls THEN SessionResult("INVALID_PARAMS", st, <<>>, NoOut)
  ELSE LET st1 == IF st.card # 0 THEN [st EXCEPT !.card = 0] ELSE st
           st2 == IF SCardIsValidContext(st1.context)
                    THEN [st1 EXCEPT !.context = SCARD_E_INVALID_HANDLE]
                    ELSE st1
       IN  SessionResult("SUCCESS", st2, <<>>, NoOut)

\* ykhsmauth_rc ykhsmauth_done(ykhsmauth_state *state): disconnect, whose
\* result is dropped, then free(state).  The freed session is no session:
\* the caller is left as before ykhsmauth_init.
ykhsmauth_done(st, a) ==
  IF "state" \in a.nulls THEN SessionResult("SUCCESS", st, <<>>, NoOut)
  ELSE SessionResult("SUCCESS", NoState, <<>>, NoOut)

\* The size of the multi-string SCardListReaders stores: every name with its
\* terminating zero, and the zero that ends the list.
RECURSIVE MultiStringLen(_)
MultiStringLen(readers) ==
  IF readers = <<>> THEN 1
  ELSE Len(Head(readers)) + 1 + MultiStringLen(Tail(readers))

\* The readers buffer and *len as the caller passed them.
NoReaders(a) == [len |-> a.len, readers |-> Untouched]

\* ykhsmauth_rc ykhsmauth_list_readers(state, readers, len)
\* env: what PC/SC answers.  establish, list1, list2: SCardEstablishContext
\* and the two SCardListReaders calls succeed; readers: the reader names.
\* The second SCardListReaders call also fails when the buffer length it is
\* given is less than the list needs (SCARD_E_INSUFFICIENT_BUFFER).
ykhsmauth_list_readers(st, a, env) ==
  LET valid  == SCardIsValidContext(st.context)
      st1    == IF valid THEN st ELSE [st EXCEPT !.context = EstablishedContext]
      gone   == [st1 EXCEPT !.context = SCARD_E_INVALID_HANDLE]
      needed == MultiStringLen(env.readers)
      num    == IF needed > a.len THEN a.len ELSE needed
  IN  IF "state" \in a.nulls \/ "readers" \in a.nulls
        THEN SessionResult("INVALID_PARAMS", st, <<>>, NoReaders(a))
      ELSE IF ~valid /\ ~env.establish
        THEN SessionResult("PCSC_ERROR", st, <<>>, NoReaders(a))
      ELSE IF ~env.list1
        THEN SessionResult("PCSC_ERROR", gone, <<>>, NoReaders(a))
      ELSE IF ~env.list2 \/ num < needed
        THEN SessionResult("PCSC_ERROR", gone, <<>>, NoReaders(a))
      ELSE SessionResult("SUCCESS", st1, <<>>,
                         [len |-> num, readers |-> env.readers])

\* tolower, as strncasecmp applies it
ToLower(c) == IF c >= 65 /\ c <= 90 THEN c + 32 ELSE c

\* strncasecmp(x, y, n) == 0 for strings x, y of at least n characters
SameFolded(x, y) == [i \in 1..Len(x) |-> ToLower(x[i])] = [i \in 1..Len(y) |-> ToLower(y[i])]

\* the while loop of ykhsmauth_connect: wanted occurs in reader, case ignored
reader_found(reader, wanted) ==
  \E k \in 0..(Len(reader) - Len(wanted)) :
     SameFolded(SubSeq(reader, k + 1, k + Len(wanted)), wanted)

\* APDU apdu = {{0, 0xa4, 0x04, 0, 7, {0xa0, 0x00, 0x00, 0x05, 0x27, 0x21, 0x07}}}
SelectAPDU ==
  [NewAPDU(164, 4, 0) EXCEPT !.lc = 7, !.data = <<160, 0, 0, 5, 39, 33, 7>>,
                             !.hi = 7]

\* The for loop of ykhsmauth_connect from reader i on (1-based).  tries[i]
\* is what PC/SC answers for reader i: connect = "ok" (SCardConnect stores a
\* handle), "fail_keep" or "fail_zero" (it fails and leaves state->card as
\* it was, or zeroes it), and rx, the answer to the select frame.
RECURSIVE connect_loop(_, _, _, _, _, _)
connect_loop(st, readers, i, a, tries, tx) ==
  IF i > Len(readers)
    THEN [state |-> st, i |-> i, tx |-> tx, selected |-> FALSE]
  ELSE IF "wanted" \notin a.nulls /\ ~reader_found(readers[i], a.wanted)
    THEN connect_loop(st, readers, i + 1, a, tries, tx)
  ELSE IF tries[i].connect # "ok"
    THEN connect_loop(IF tries[i].connect = "fail_zero"
                        THEN [st EXCEPT !.card = 0] ELSE st,
                      readers, i + 1, a, tries, tx)
  ELSE LET st1 == [st EXCEPT !.card = i]
           s   == send_data(SelectAPDU, tries[i].rx, RECV_BUF_SIZE)
           tx1 == Append(tx, s.frame)
       IN  IF s.rc # "SUCCESS"
             THEN connect_loop(st1, readers, i + 1, a, tries, tx1)
           ELSE IF s.sw = SW_SUCCESS
             THEN [state |-> st1, i |-> i, tx |-> tx1, selected |-> TRUE]
           ELSE connect_loop(st1, readers, i + 1, a, tries, tx1)

\* The size of reader_buf in ykhsmauth_connect.
READER_BUF_SIZE == 2048

\* ykhsmauth_rc ykhsmauth_connect(ykhsmauth_state *state, const char *wanted)
ykhsmauth_connect(st, a, env) ==
  LET l == ykhsmauth_list_readers(st, [len |-> READER_BUF_SIZE,
                                       nulls |-> a.nulls \cap {"state"}], env)
      w == connect_loop(l.state, l.out.readers, 1, a, env.tries, <<>>)
  IN  IF "state" \in a.nulls THEN SessionResult("INVALID_PARAMS", st, <<>>, NoOut)
      ELSE IF l.ret # "SUCCESS" THEN SessionResult(l.ret, l.state, <<>>, NoOut)
      ELSE IF w.selected THEN SessionResult("SUCCESS", w.state, w.tx, NoOut)
      ELSE IF w.i > Len(l.out.readers)
        THEN SessionResult("PCSC_ERROR",
                           [w.state EXCEPT !.context = SCARD_E_INVALID_HANDLE],
                           w.tx, NoOut)
      ELSE SessionResult("GENERIC_ERROR", w.state, w.tx, NoOut)

(***************************************************************************)
(* The inputs the calls are tried on.                                      *)
(***************************************************************************)
\* The most records a generated list payload is built from.
MaxRecords == 3

\* A label of n characters (a C string: no zero byte).
LabelOfLen(n) == [i \in 1..n |-> 97 + (i % 26)]

LabelLens == {0, 1, 17, 18, 64, 65}
Labels == {LabelOfLen(n) : n \in LabelLens}

\* Status words the card may answer with: success, the authentication-failed
\* class, every code translate_error names, and words it does not know.
SWSample ==
  {SW_SUCCESS, SW_AUTHENTICATION_FAILED, SW_AUTHENTICATION_FAILED + 5,
   SW_AUTHENTICATION_FAILED + 15, 0, 28416} \cup ExactCodes

\* Answers to a command whose response carries no payload: the transport
\* fails, the answer is too short to hold a status word, or a status word.
RxStatus ==
  {TransportFailure, [bytes |-> <<>>, fail |-> FALSE], [bytes |-> <<144>>, fail |-> FALSE]}
    \cup {Answer(<<>>, sw) : sw \in SWSample}

\* Answers with a payload of each of the given lengths and status success.
RxPayload(lens) == {Answer(Pat(n, 3), SW_SUCCESS) : n \in lens}

\* Arguments with at most one pointer NULL.
NullChoices(ptrs) == {{}} \cup {{p} : p \in ptrs}

PutArgs ==
  {[label |-> l, nulls |-> {}, mgmkey |-> Pat(m, 160), key |-> Pat(k, 16),
    cpw |-> Pat(c, 48), algo |-> al, touch_policy |-> 1] :
     m \in {16}, l \in Labels,
     al \in {YKHSMAUTH_YUBICO_AES128_ALGO, YKHSMAUTH_YUBICO_ECP256_ALGO, 0},
     k \in {0, 31, 32}, c \in {0, 4, 16}}
  \cup
  {[label |-> l, nulls |-> {}, mgmkey |-> Pat(m, 160), key |-> Pat(k, 16),
    cpw |-> Pat(c, 48), algo |-> YKHSMAUTH_YUBICO_ECP256_ALGO, touch_policy |-> 1] :
     m \in {15, 16, 17}, l \in {LabelOfLen(3), LabelOfLen(0)},
     k \in {32, 33}, c \in {16, 17}}
  \cup
  {[label |-> l, nulls |-> ns, mgmkey |-> Pat(16, 160),
    key |-> Pat(32, 16), cpw |-> Pat(4, 48),
    algo |-> YKHSMAUTH_YUBICO_AES128_ALGO, touch_policy |-> 0] :
     ns \in NullChoices({"state", "retries", "label", "mgmkey", "key", "cpw"}),
     l \in {LabelOfLen(3), LabelOfLen(65)}}

DeleteArgs ==
  {[label |-> l, nulls |-> ns, mgmkey |-> Pat(m, 160)] :
     ns \in NullChoices({"state", "retries", "label", "mgmkey"}),
     m \in {15, 16, 17}, l \in Labels}

PutMgmkeyArgs ==
  {[nulls |-> ns, mgmkey |-> Pat(m, 160), new_mgmkey |-> Pat(n, 176)] :
     ns \in NullChoices({"state", "retries", "mgmkey", "new_mgmkey"}),
     m \in {15, 16, 17}, n \in {15, 16, 17}}

CalculateArgs ==
  {[label |-> l, nulls |-> {}, context |-> Pat(cx, 192),
    card_pubkey |-> Pat(pk, 64), card_crypto |-> Pat(cc, 80), pw |-> Pat(p, 48),
    key_s_enc_len |-> 16, key_s_mac_len |-> 16, key_s_rmac_len |-> 16] :
     l \in Labels, cx \in {0, 16, 130}, pk \in {0, 40, 65},
     cc \in {0, 8, 9, 16}, p \in {0, 4, 16}}
  \cup
  {[label |-> l, nulls |-> {}, context |-> Pat(cx, 192),
    card_pubkey |-> Pat(pk, 64), card_crypto |-> Pat(cc, 80), pw |-> Pat(p, 48),
    key_s_enc_len |-> 16, key_s_mac_len |-> 16, key_s_rmac_len |-> 16] :
     l \in {LabelOfLen(3), LabelOfLen(65)}, cx \in {130, 131}, pk \in {65, 66},
     cc \in {16, 17}, p \in {16, 17}}
  \cup
  {[label |-> l, nulls |-> ns, context |-> Pat(16, 192),
    card_pubkey |-> Pat(65, 64), card_crypto |-> Pat(16, 80), pw |-> Pat(4, 48),
    key_s_enc_len |-> e, key_s_mac_len |-> m, key_s_rmac_len |-> r] :
     ns \in NullChoices({"state", "retries", "label", "key_s_enc", "key_s_mac",
                         "key_s_rmac", "context", "card_pubkey", "card_crypto", "pw"}),
     l \in {LabelOfLen(3), LabelOfLen(65)},
     e \in {16}, m \in {16}, r \in {16}}
  \cup
  {[label |-> l, nulls |-> {}, context |-> Pat(16, 192),
    card_pubkey |-> <<>>, card_crypto |-> <<>>, pw |-> Pat(4, 48),
    key_s_enc_len |-> e, key_s_mac_len |-> m, key_s_rmac_len |-> r] :
     l \in {LabelOfLen(3), LabelOfLen(0)},
     e \in {15, 16}, m \in {16, 17}, r \in {16, 32}}

\* Payload lengths around 3 * SESSION_KEY_LEN, with and without a trailing
\* host cryptogram, up to the most the receive buffer holds.
CalculateRx == RxStatus \cup RxPayload({1, 16, 47, 48, 49, 56, 254})

BlobArgs ==
  {[label |-> l, nulls |-> ns, cap |-> c] :
     ns \in NullChoices({"state", "len", "label", "buf"}),
     l \in Labels, c \in {0, 64, 65, 66, 254}}

BlobRx == RxStatus \cup RxPayload({1, 32, 64, 65, 66, 254})

VersionArgs ==
  {[len |-> n, nulls |-> ns] :
     ns \in NullChoices({"state", "version"}), n \in {0, 1, 5, 6, 12}}

VersionRx ==
  RxStatus \cup {Answer(v, SW_SUCCESS) : v \in {<<2, 0, 0>>, <<1, 10, 255>>, <<2, 0>>, <<2, 0, 0, 1>>}}

RetriesArgs == {[nulls |-> ns] : ns \in NullChoices({"state", "retries"})}

RetriesRx == RxStatus \cup {Answer(<<n>>, SW_SUCCESS) : n \in {0, 8, 255}}

ResetArgs == {[nulls |-> ns] : ns \in NullChoices({"state"})}

\* The pieces list payloads are built from.  A record with a label of n bytes:
\* tag, len = 3 + n, algo, touch, the label, ctr.
ListRecord(n) ==
  <<YKHSMAUTH_TAG_LABEL_LIST, 3 + n, YKHSMAUTH_YUBICO_AES128_ALGO, 1>>
    \o LabelOfLen(n) \o <<9>>

ListPieces ==
  { ListRecord(0), ListRecord(2), ListRecord(65), ListRecord(66),
    \* a record too short to hold algo, touch and ctr
    <<YKHSMAUTH_TAG_LABEL_LIST, 2, 38, 1>>,
    \* a record announcing 5 bytes and bringing 2
    <<YKHSMAUTH_TAG_LABEL_LIST, 5, 38, 1>>,
    \* a record with another tag
    <<YKHSMAUTH_TAG_LABEL, 3, 38, 1, 9>>,
    \* a lone byte
    <<YKHSMAUTH_TAG_LABEL_LIST>> }

RECURSIVE ListPayloads(_)
ListPayloads(n) ==
  IF n = 0 THEN {<<>>}
  ELSE LET shorter == ListPayloads(n - 1)
       IN  shorter \cup {p \o q : p \in shorter, q \in ListPieces}

ListArgs ==
  {[nulls |-> ns, cap |-> c] : ns \in {{}, {"list"}}, c \in 0..(MaxRecords + 1)}
  \cup {[nulls |-> {p}, cap |-> 1] : p \in {"state", "list_items"}}

ListRx == RxStatus \cup {Answer(p, SW_SUCCESS) : p \in ListPayloads(MaxRecords)}

(***************************************************************************)
(* The actions: one library call each.                                     *)
(***************************************************************************)
Init ==
  /\ op = "none"
  /\ arg = [nulls |-> {}]
  /\ ret = "NONE"
  /\ sent = <<>>
  /\ resp = NoResp
  /\ apdu = NewAPDU(0, 0, 0)
  /\ out = NoOut
  /\ state = NoState

\* No call is in progress: the caller is free to make one.
Idle == op = "none"

\* The call name(a) answered by rx left r behind.
Call(name, a, rx, r) ==
  /\ op' = name
  /\ arg' = a
  /\ ret' = r.ret
  /\ sent' = r.tx
  /\ resp' = IF r.tx = <<>> THEN NoResp ELSE rx
  /\ apdu' = r.apdu
  /\ out' = r.out
  /\ UNCHANGED state

Put ==
  /\ Idle
  /\ \E a \in PutArgs, rx \in RxStatus, ub \in UBOutcomes :
       Call("put", a, rx, ykhsmauth_put(a, rx, ub))

Delete ==
  /\ Idle
  /\ \E a \in DeleteArgs, rx \in RxStatus, ub \in UBOutcomes :
       Call("delete", a, rx, ykhsmauth_delete(a, rx, ub))

PutMgmkey ==
  /\ Idle
  /\ \E a \in PutMgmkeyArgs, rx \in RxStatus, ub \in UBOutcomes :
       Call("put_mgmkey", a, rx, ykhsmauth_put_mgmkey(a, rx, ub))

Calculate ==
  /\ Idle
  /\ \E a \in CalculateArgs, rx \in CalculateRx, ub \in UBOutcomes :
       Call("calculate", a, rx, ykhsmauth_calculate(a, rx, ub))

Reset ==
  /\ Idle
  /\ \E a \in ResetArgs, rx \in RxStatus :
       Call("reset", a, rx, ykhsmauth_reset(a, rx))

GetVersion ==
  /\ Idle
  /\ \E a \in VersionArgs, rx \in VersionRx :
       Call("get_version", a, rx, ykhsmauth_get_version(a, rx))

GetMgmkeyRetries ==
  /\ Idle
  /\ \E a \in RetriesArgs, rx \in RetriesRx :
       Call("get_mgmkey_retries", a, rx, ykhsmauth_get_mgmkey_retries(a, rx))

GetChallenge ==
  /\ Idle
  /\ \E a \in BlobArgs, rx \in BlobRx, ub \in UBOutcomes :
       Call("get_challenge", a, rx, ykhsmauth_get_challenge(a, rx, ub))

GetPubkey ==
  /\ Idle
  /\ \E a \in BlobArgs, rx \in BlobRx, ub \in UBOutcomes :
       Call("get_pubkey", a, rx, ykhsmauth_get_pubkey(a, rx, ub))

ListKeys ==
  /\ Idle
  /\ \E a \in ListArgs, rx \in ListRx :
       Call("list_keys", a, rx, ykhsmauth_list_keys(a, rx))

\* The caller has looked at what the call left; the call's frame and locals
\* are gone and the next call starts afresh.  The session stays as it is.
Return ==
  /\ ~Idle
  /\ op' = "none"
  /\ arg' = [nulls |-> {}]
  /\ ret' = "NONE"
  /\ sent' = <<>>
  /\ resp' = NoResp
  /\ apdu' = NewAPDU(0, 0, 0)
  /\ out' = NoOut
  /\ UNCHANGED state

Next ==
  \/ Put
  \/ Delete
  \/ PutMgmkey
  \/ Calculate
  \/ Reset
  \/ GetVersion
  \/ GetMgmkeyRetries
  \/ GetChallenge
  \/ GetPubkey
  \/ ListKeys
  \/ Return

Spec == Init /\ [][Next]_vars

(***************************************************************************)
(* The two pure functions on all of their 16-bit inputs.                   *)
(***************************************************************************)
Word == 0..65535

\* encode_len(buf, n), and what the list decoder reads as the length of a
\* record whose length header is that encoding.
EncodeLen ==
  /\ Idle
  /\ \E n \in Word :
       /\ op' = "encode_len"
       /\ arg' = [len |-> n]
       /\ out' = [bytes |-> encode_len(n),
                  decoded |-> record_len(<<YKHSMAUTH_TAG_LABEL_LIST>> \o encode_len(n), 1)]
       /\ UNCHANGED <<ret, sent, resp, apdu, state>>

\* translate_error(sw, retries) with and without a retry output.
TranslateError ==
  /\ Idle
  /\ \E sw \in Word, retries_null \in BOOLEAN :
       LET t == translate_error(sw, retries_null)
       IN  /\ op' = "translate_error"
           /\ arg' = [sw |-> sw, retries_null |-> retries_null]
           /\ ret' = t.rc
           /\ out' = [retries |-> t.retries]
           /\ UNCHANGED <<sent, resp, apdu, state>>

NextCodec ==
  \/ EncodeLen
  \/ TranslateError

SpecCodec == Init /\ [][NextCodec]_vars

(***************************************************************************)
(* The session calls, in any order, on one handle.                         *)
(***************************************************************************)
\* Reader names: "Yubi", "ACS".
ReaderNames == <<<<89, 117, 98, 105>>, <<65, 67, 83>>>>

\* The reader lists PC/SC reports: none, the first, both.
ReaderLists == {SubSeq(ReaderNames, 1, n) : n \in 0..Len(ReaderNames)}

\* wanted: "yub" (the first reader, case ignored), "x" (none), "" (any)
WantedNames == {<<121, 117, 98>>, <<120>>, <<>>}

\* What PC/SC answers when one reader is tried.
Tries ==
  {[rx |-> TransportFailure, connect |-> c] : c \in {"ok", "fail_zero", "fail_keep"}}
  \cup {[rx |-> Answer(<<>>, sw), connect |-> "ok"] : sw \in {SW_SUCCESS, SW_FILE_NOT_FOUND}}

\* What PC/SC answers during ykhsmauth_list_readers.
ListEnv ==
  {[readers |-> rs, establish |-> e, list1 |-> l1, list2 |-> l2] :
     e \in BOOLEAN, l1 \in BOOLEAN, l2 \in BOOLEAN, rs \in ReaderLists}

\* What PC/SC answers during ykhsmauth_connect.
ConnectEnv ==
  {[readers |-> rs, establish |-> e, list1 |-> l1, list2 |-> TRUE, tries |-> ts] :
     e \in BOOLEAN, l1 \in BOOLEAN, rs \in ReaderLists,
     ts \in [1..Len(ReaderNames) -> Tries]}
  \cup
  {[readers |-> ReaderNames, establish |-> TRUE, list1 |-> TRUE, list2 |-> FALSE,
    tries |-> [i \in 1..Len(ReaderNames) |-> [rx |-> TransportFailure, connect |-> "ok"]]]}

InitArgs == {[nulls |-> ns] : ns \in {{}, {"state"}}}

ListReadersArgs ==
  {[len |-> n, nulls |-> ns] :
     ns \in NullChoices({"state", "readers"}), n \in {0, 5, 10, READER_BUF_SIZE}}

ConnectArgs ==
  {[nulls |-> ns, wanted |-> w] : ns \in {{}, {"state"}}, w \in WantedNames}
  \cup {[nulls |-> {"wanted"}, wanted |-> <<>>]}

DisconnectArgs == {[nulls |-> ns] : ns \in {{}, {"state"}}}

\* Before ykhsmauth_init has given the caller a session, and after
\* ykhsmauth_done has freed it, the handle the caller passes is NULL.
HandleOf(a) == state.alloc \/ "state" \in a.nulls

\* The session call name(a), answered by env, left r behind.
SessionCall(name, a, env, r) ==
  /\ op' = name
  /\ arg' = a
  /\ ret' = r.ret
  /\ sent' = r.tx
  /\ resp' = env
  /\ apdu' = NewAPDU(0, 0, 0)
  /\ out' = r.out
  /\ state' = r.state

SessionInit ==
  /\ Idle
  /\ \E a \in InitArgs, malloc_ok \in BOOLEAN :
       SessionCall("init", a, [malloc_ok |-> malloc_ok],
                   ykhsmauth_init(state, a, malloc_ok))

ListReaders ==
  /\ Idle
  /\ \E a \in ListReadersArgs, env \in ListEnv :
       /\ HandleOf(a)
       /\ SessionCall("list_readers", a, env, ykhsmauth_list_readers(state, a, env))

Connect ==
  /\ Idle
  /\ \E a \in ConnectArgs, env \in ConnectEnv :
       /\ HandleOf(a)
       /\ SessionCall("connect", a, env, ykhsmauth_connect(state, a, env))

Disconnect ==
  /\ Idle
  /\ \E a \in DisconnectArgs :
       /\ HandleOf(a)
       /\ SessionCall("disconnect", a, NoResp, ykhsmauth_disconnect(state, a))

Done ==
  /\ Idle
  /\ \E a \in DisconnectArgs :
       /\ HandleOf(a)
       /\ SessionCall("done", a, NoResp, ykhsmauth_done(state, a))

NextSession ==
  \/ SessionInit
  \/ ListReaders
  \/ Connect
  \/ Disconnect
  \/ Done
  \/ Return

SpecSession == Init /\ [][NextSession]_vars

(***************************************************************************)
(* Properties.                                                             *)
(***************************************************************************)
\* The ten credential protocol operations.
ProtocolOps ==
  {"put", "delete", "put_mgmkey", "calculate", "reset", "get_version",
   "get_mgmkey_retries", "get_challenge", "get_pubkey", "list_keys"}

\* The operations that take a label.
LabelOps == {"put", "delete", "calculate", "get_challenge", "get_pubkey"}

\* The call's arguments fail the operation's own argument check.
ArgsInvalid ==
  CASE op = "put" -> put_invalid(arg)
    [] op = "delete" -> delete_invalid(arg)
    [] op = "calculate" -> calculate_invalid(arg)
    [] op = "get_challenge" -> blob_invalid(arg)
    [] op = "get_pubkey" -> blob_invalid(arg)
    [] op = "put_mgmkey" -> put_mgmkey_invalid(arg)
    [] op = "reset" -> reset_invalid(arg)
    [] op = "get_version" -> get_version_invalid(arg)
    [] op = "get_mgmkey_retries" -> get_mgmkey_retries_invalid(arg)
    [] op = "list_keys" -> list_keys_invalid(arg)

\* The card answered the call's one exchange with a status word.
Answered == Len(sent) = 1 /\ ~resp.fail /\ Len(resp.bytes) >= 2

\* That status word, and the payload before it.
AnswerSW == resp.bytes[Len(resp.bytes) - 1] * 256 + resp.bytes[Len(resp.bytes)]
AnswerPayload == SubSeq(resp.bytes, 1, Len(resp.bytes) - 2)

AnsweredSuccess == Answered /\ AnswerSW = SW_SUCCESS

\* Some argument of calculate other than the label's length is unacceptable.
CalculateOthersInvalid(a) ==
  \/ "state" \in a.nulls
  \/ "label" \in a.nulls
  \/ "context" \in a.nulls
  \/ Len(a.context) > 2 * YKHSMAUTH_YUBICO_ECP256_PUBKEY_LEN
  \/ Len(a.card_pubkey) > YKHSMAUTH_YUBICO_ECP256_PUBKEY_LEN
  \/ Len(a.card_crypto) > YKHSMAUTH_SESSION_KEY_LEN
  \/ "pw" \in a.nulls
  \/ Len(a.pw) > YKHSMAUTH_PW_LEN
  \/ "key_s_enc" \in a.nulls
  \/ a.key_s_enc_len # YKHSMAUTH_SESSION_KEY_LEN
  \/ "key_s_mac" \in a.nulls
  \/ a.key_s_mac_len # YKHSMAUTH_SESSION_KEY_LEN
  \/ "key_s_rmac" \in a.nulls
  \/ a.key_s_rmac_len # YKHSMAUTH_SESSION_KEY_LEN

\* C1: put, delete, calculate, get_challenge and get_pubkey called with a
\* label shorter than MIN_LABEL_LEN or longer than MAX_LABEL_LEN return
\* InvalidParams and never call the transport, whatever the other arguments.
C1_BadLabelRejected ==
  ( /\ op \in LabelOps
    /\ "label" \notin arg.nulls
    /\ \/ Len(arg.label) < YKHSMAUTH_MIN_LABEL_LEN
       \/ Len(arg.label) > YKHSMAUTH_MAX_LABEL_LEN )
  => (ret = "INVALID_PARAMS" /\ sent = <<>>)

\* calculate with a 65-character label and every other argument acceptable
C1_Witness ==
  /\ op = "calculate"
  /\ arg.nulls = {}
  /\ Len(arg.label) = YKHSMAUTH_MAX_LABEL_LEN + 1
  /\ ~CalculateOthersInvalid(arg)
  /\ ret = "INVALID_PARAMS"
  /\ sent = <<>>

\* C2: a protocol operation whose arguments pass its check has, when it
\* returns, called the transport exactly once, whatever the exchange gave
\* (transport failure, error status word, malformed payload).
C2_OneExchange ==
  (op \in ProtocolOps /\ ~ArgsInvalid /\ ret # "ABORT") => Len(sent) = 1

\* calculate answered by success and a payload one byte short
C2_Witness ==
  /\ op = "calculate"
  /\ AnsweredSuccess
  /\ Len(AnswerPayload) = 3 * YKHSMAUTH_SESSION_KEY_LEN - 1
  /\ ret = "GENERIC_ERROR"
  /\ Len(sent) = 1

\* C3: calculate answered with a success status word: a payload of exactly
\* 3 * SESSION_KEY_LEN bytes gives success and the enc, mac and rmac buffers
\* hold its three thirds in order; any other length gives GenericError and
\* none of the three buffers is written.
C3_KeysPartitioned ==
  (op = "calculate" /\ AnsweredSuccess) =>
    LET L == YKHSMAUTH_SESSION_KEY_LEN
        payload == AnswerPayload
    IN  IF Len(payload) = 3 * L
          THEN /\ ret = "SUCCESS"
               /\ out.key_s_enc = SubSeq(payload, 1, L)
               /\ out.key_s_mac = SubSeq(payload, L + 1, 2 * L)
               /\ out.key_s_rmac = SubSeq(payload, 2 * L + 1, 3 * L)
               /\ out.key_s_enc \o out.key_s_mac \o out.key_s_rmac = payload
          ELSE /\ ret = "GENERIC_ERROR"
               /\ out.key_s_enc = Untouched
               /\ out.key_s_mac = Untouched
               /\ out.key_s_rmac = Untouched

\* calculate answered by success and 48 bytes
C3_Witness ==
  /\ op = "calculate"
  /\ AnsweredSuccess
  /\ Len(AnswerPayload) = 3 * YKHSMAUTH_SESSION_KEY_LEN
  /\ ret = "SUCCESS"
  /\ Len(out.key_s_rmac) = YKHSMAUTH_SESSION_KEY_LEN

\* C4: translate_error on a status word whose top 12 bits are those of
\* SW_AUTHENTICATION_FAILED and whose low nibble is k returns WrongCredential
\* and stores k in the retry output; on a word that is neither of that form
\* nor one of the eight exact codes (0 included) it returns GenericError and
\* leaves the retry output unwritten.
C4_Translate ==
  op = "translate_error" =>
    LET sw == arg.sw
        authFailed == sw \div 16 = SW_AUTHENTICATION_FAILED \div 16
    IN  /\ authFailed =>
             /\ ret = "WRONG_PW"
             /\ ~arg.retries_null => out.retries = Retries(sw % 16)
        /\ (~authFailed /\ sw \notin ExactCodes) =>
             /\ ret = "GENERIC_ERROR"
             /\ ~out.retries.written

\* 0x63c7 with a retry output
C4_Witness ==
  /\ op = "translate_error"
  /\ arg.sw = SW_AUTHENTICATION_FAILED + 7
  /\ ~arg.retries_null
  /\ ret = "WRONG_PW"
  /\ out.retries = Retries(7)

\* C5: when the exchange itself fails, every protocol operation, reset
\* included, returns TransportError (YKHSMAUTHR_PCSC_ERROR).
C5_TransportErrorReturned ==
  (op \in ProtocolOps /\ Len(sent) = 1 /\ resp.fail) => ret = "PCSC_ERROR"

\* A payload that list records tile exactly: each the list tag, one length
\* byte len and len value bytes.
RECURSIVE Tiled(_)
Tiled(p) ==
  \/ p = <<>>
  \/ /\ Len(p) >= 2
     /\ p[1] = YKHSMAUTH_TAG_LABEL_LIST
     /\ 2 + p[2] <= Len(p)
     /\ Tiled(SubSeq(p, 3 + p[2], Len(p)))

\* The records a payload begins: the complete ones at its front and the one,
\* if any, whose tag and length byte follow them.
RECURSIVE RecordsBegun(_)
RecordsBegun(p) ==
  IF Len(p) >= 2 /\ p[1] = YKHSMAUTH_TAG_LABEL_LIST
    THEN 1 + (IF 2 + p[2] <= Len(p) THEN RecordsBegun(SubSeq(p, 3 + p[2], Len(p)))
              ELSE 0)
    ELSE 0

\* The caller's array has a slot for every record the payload begins (or the
\* caller passed no array and only counts).
EnoughCapacity == "list" \in arg.nulls \/ arg.cap >= RecordsBegun(AnswerPayload)

\* C6: list_keys, given a success status word and enough capacity, returns
\* success only when list records tile the payload exactly; a record whose
\* length exceeds the bytes left, or bytes left over after the last complete
\* record (a lone byte included), give GenericError.
C6_ListTiled ==
  (op = "list_keys" /\ AnsweredSuccess /\ EnoughCapacity) =>
    /\ ret = "SUCCESS" => Tiled(AnswerPayload)
    /\ ~Tiled(AnswerPayload) => ret = "GENERIC_ERROR"

\* one complete record, then a record announcing 5 bytes and bringing 2
C6_Witness ==
  /\ op = "list_keys"
  /\ AnsweredSuccess
  /\ arg.nulls = {}
  /\ arg.cap >= 2
  /\ AnswerPayload = ListRecord(0) \o <<YKHSMAUTH_TAG_LABEL_LIST, 5, 38, 1>>
  /\ ret = "GENERIC_ERROR"

\* The well-formed records at the front of a payload: list tag, a length of
\* 3 to 3 + LIST_LABEL_SIZE, and all of the value present.
RECURSIVE WellFormedRecords(_)
WellFormedRecords(p) ==
  IF /\ Len(p) >= 2
     /\ p[1] = YKHSMAUTH_TAG_LABEL_LIST
     /\ p[2] >= 3
     /\ p[2] - 3 <= LIST_LABEL_SIZE
     /\ 2 + p[2] <= Len(p)
    THEN 1 + WellFormedRecords(SubSeq(p, 3 + p[2], Len(p)))
    ELSE 0

\* C7: list_keys with an array of capacity C and a payload of more than C
\* well-formed records returns MemoryError, stores only in slots below C and
\* leaves the caller's count at C.
C7_ListOverflow ==
  ( /\ op = "list_keys"
    /\ AnsweredSuccess
    /\ "list" \notin arg.nulls
    /\ WellFormedRecords(AnswerPayload) > arg.cap )
  => /\ ret = "MEMORY_ERROR"
     /\ Len(out.list) <= arg.cap
     /\ out.list_items = arg.cap

\* two well-formed records, capacity 1
C7_Witness ==
  /\ op = "list_keys"
  /\ AnsweredSuccess
  /\ arg.nulls = {}
  /\ arg.cap = 1
  /\ WellFormedRecords(AnswerPayload) = 2
  /\ ret = "MEMORY_ERROR"
  /\ Len(out.list) = 1

\* C8: for every operation and all arguments that pass its check, the
\* frame's data, after all fields are appended, is at most 255 bytes long:
\* no field is written past the end of the frame's data array.
C8_FrameFits ==
  (op \in ProtocolOps /\ ~ArgsInvalid) => apdu.hi <= APDU_DATA_SIZE

\* The value length and the header length of the field at the front of d
\* (tag, then a length of one byte, or 0x81 and one byte, or 0x82 and two).
FieldHeader(d) ==
  IF Len(d) >= 2 /\ d[2] <= 127 THEN <<d[2], 2>>
  ELSE IF Len(d) >= 3 /\ d[2] = 129 THEN <<d[3], 3>>
  ELSE IF Len(d) >= 4 /\ d[2] = 130 THEN <<d[3] * 256 + d[4], 4>>
  ELSE <<0, 0>>

\* The fields of a frame's data as <<tag, value>> pairs; data that is not a
\* sequence of whole fields yields the pair <<-1, <<>>>> as well.
RECURSIVE FrameFields(_)
FrameFields(d) ==
  IF d = <<>> THEN {}
  ELSE LET h == FieldHeader(d)
       IN  IF h[2] = 0 \/ h[2] + h[1] > Len(d) THEN {<<-1, <<>>>>}
           ELSE {<<d[1], SubSeq(d, h[2] + 1, h[2] + h[1])>>}
                  \cup FrameFields(SubSeq(d, h[2] + h[1] + 1, Len(d)))

\* The data of a transmitted frame: what follows the five header bytes; a
\* frame whose length byte disagrees with its length has none.
FrameData(frame) ==
  IF Len(frame) >= 5 /\ frame[5] = Len(frame) - 5
    THEN SubSeq(frame, 6, Len(frame))
    ELSE <<-1>>

\* The password a call was given.
PasswordArg == IF op = "put" THEN arg.cpw ELSE arg.pw

\* C9: every frame put and calculate send carries the password as a field
\* of exactly PW_LEN bytes: the p password bytes, then PW_LEN - p zero bytes.
C9_PasswordPadded ==
  (op \in {"put", "calculate"} /\ Len(sent) = 1) =>
    LET fields == FrameFields(FrameData(sent[1]))
    IN  /\ <<-1, <<>>>> \notin fields
        /\ {f \in fields : f[1] = YKHSMAUTH_TAG_PW}
             = {<<YKHSMAUTH_TAG_PW,
                  PasswordArg \o Zeros(YKHSMAUTH_PW_LEN - Len(PasswordArg))>>}

\* What encode_len is to store for n.
LengthHeader(n) ==
  IF n <= 127 THEN <<n>>
  ELSE IF n <= 255 THEN <<129, n>>
  ELSE <<130, n \div 256, n % 256>>

\* C10 as stated: encode_len(n) emits {n}, {0x81, n} or {0x82, n>>8, n&0xff}
\* for n up to 0x7f, 0xff and 0xffff, and the record decoder recovers n from
\* that header.
C10_RoundTrip ==
  op = "encode_len" =>
    /\ out.bytes = LengthHeader(arg.len)
    /\ out.decoded = arg.len

\* C10, amended: encode_len(n) emits the 1, 2 or 3 bytes above; the list
\* decoder, which reads one length byte, recovers n for n <= 0x7f and reads
\* the marker byte 0x81 or 0x82 as the length of any longer record.
C10_EncodeLen ==
  op = "encode_len" =>
    /\ out.bytes = LengthHeader(arg.len)
    /\ arg.len <= 127 => out.decoded = arg.len
    /\ (arg.len > 127 /\ arg.len <= 255) => out.decoded = 129
    /\ arg.len > 255 => out.decoded = 130

\* n = 300: three bytes, read back as 130
C10_Witness ==
  /\ op = "encode_len"
  /\ arg.len = 300
  /\ out.bytes = <<130, 1, 44>>
  /\ out.decoded = 130

\* C11: after every init, list_readers, connect or disconnect call on one
\* session handle has returned, a session that holds an open (non-zero) card
\* handle also holds a valid transport context; after a failed connect no
\* card handle is left on a released context.
C11_CardNeedsContext ==
  (state.alloc /\ state.card # 0) => SCardIsValidContext(state.context)

\* C12: get_challenge and get_pubkey never write more bytes into the caller's
\* buffer than the capacity the caller passed in, for every accepted capacity
\* (at least the EC public-key length) and every success payload the
\* transport can return (0 to 254 bytes).
C12_BlobFits ==
  ( /\ op \in {"get_challenge", "get_pubkey"}
    /\ ~ArgsInvalid
    /\ AnsweredSuccess )
  => Len(out.stored) <= arg.cap

====
